---- MODULE Spec2Model ----
(***************************************************************************)
(* Knapsack heuristics of etapas_po_4.py: gulosa_ratio, relaxacao_linear,  *)
(* arredondamento_reparo, busca_local and the executar_instancia pipeline. *)
(*                                                                         *)
(* Values, weights and the capacity are integer-valued float64 numbers.    *)
(* Their sums and differences are exact in float64 (all far below 2^53),   *)
(* so they are kept as integers.  The quotient restante / pesos[i] of      *)
(* relaxacao_linear and everything computed from it is NOT exact: it is    *)
(* kept as a float64 (53-bit significand, round to nearest, ties to even). *)
(***************************************************************************)
EXTENDS Integers, Sequences, FiniteSets, TLC

\* ------------------------------------------------------------------------
\* float64 arithmetic.  A non-negative double is [m, e]: m is the
\* significand as a sequence of MantBits bits, most significant first and
\* leading bit 1, and the value is m * 2^e.  Zero is [m |-> <<>>, e |-> 0].
\* ------------------------------------------------------------------------

MantBits == 53

RECURSIVE BitsOfNat(_)
BitsOfNat(n) == IF n = 0 THEN <<>> ELSE Append(BitsOfNat(n \div 2), n % 2)

\* n as exactly k bits (n < 2^k)
PadBits(n, k) == [i \in 1..k |-> (n \div (2 ^ (k - i))) % 2]

RECURSIVE NatOfBits(_)
NatOfBits(b) ==
    IF b = <<>> THEN 0
    ELSE 2 * NatOfBits(SubSeq(b, 1, Len(b) - 1)) + b[Len(b)]

Zeros(k) == [i \in 1..k |-> 0]

DblZero == [m |-> <<>>, e |-> 0]

\* b + 1 on a bit sequence (most significant bit first); may grow by one bit
IncBits(b) ==
    IF \A i \in 1..Len(b) : b[i] = 1 THEN <<1>> \o Zeros(Len(b))
    ELSE LET k == CHOOSE i \in 1..Len(b) :
                      b[i] = 0 /\ \A j \in (i + 1)..Len(b) : b[j] = 1
         IN  [i \in 1..Len(b) |-> IF i < k THEN b[i] ELSE IF i = k THEN 1 ELSE 0]

StripZeros(b) ==
    IF \A i \in 1..Len(b) : b[i] = 0 THEN <<>>
    ELSE LET k == CHOOSE i \in 1..Len(b) :
                      b[i] = 1 /\ \A j \in 1..(i - 1) : b[j] = 0
         IN  SubSeq(b, k, Len(b))

\* The double nearest to (b * 2^e, plus something in (0, 2^e) when sticky):
\* round to nearest, ties to even.  b has no leading zero.
RoundBits(b, e, sticky) ==
    IF b = <<>> THEN DblZero
    ELSE IF Len(b) <= MantBits
    THEN [m |-> b \o Zeros(MantBits - Len(b)), e |-> e - (MantBits - Len(b))]
    ELSE LET keep  == SubSeq(b, 1, MantBits)
             guard == b[MantBits + 1]
             rest  == sticky \/ \E i \in (MantBits + 2)..Len(b) : b[i] = 1
             e2    == e + (Len(b) - MantBits)
             up    == guard = 1 /\ (rest \/ keep[MantBits] = 1)
             inc   == IncBits(keep)
         IN  IF ~up THEN [m |-> keep, e |-> e2]
             ELSE IF Len(inc) = MantBits THEN [m |-> inc, e |-> e2]
             ELSE [m |-> SubSeq(inc, 1, MantBits), e |-> e2 + 1]

DblFromInt(n) == RoundBits(BitsOfNat(n), 0, FALSE)

\* Long division, eight bits at a time: the next k bits of the binary
\* fraction rem / w (rem < w) and the remainder left after them.
RECURSIVE GenBits(_, _, _)
GenBits(rem, w, k) ==
    IF k = 0 THEN <<<<>>, rem>>
    ELSE LET c    == IF k < 8 THEN k ELSE 8
             t    == rem * (2 ^ c)
             rest == GenBits(t % w, w, k - c)
         IN  <<PadBits(t \div w, c) \o rest[1], rest[2]>>

\* the number of zero bits that open the binary fraction rem / w, 0 < rem < w
RECURSIVE LeadingZeros(_, _)
LeadingZeros(rem, w) ==
    IF 2 * rem >= w THEN 0 ELSE 1 + LeadingZeros(2 * rem, w)

\* fl(r / w) for integers r >= 0, w > 0
DblDiv(r, w) ==
    IF r = 0 THEN DblZero
    ELSE LET q   == BitsOfNat(r \div w)
             rem == r % w
         IN  IF rem = 0 THEN RoundBits(q, 0, FALSE)
             ELSE IF q = <<>>
             THEN LET z == LeadingZeros(rem, w)
                      g == GenBits(rem * (2 ^ z), w, MantBits + 2)
                  IN  RoundBits(g[1], 0 - (z + MantBits + 2), g[2] # 0)
             ELSE LET g == GenBits(rem, w, MantBits + 2)
                  IN  RoundBits(q \o g[1], 0 - (MantBits + 2), g[2] # 0)

\* b * v + carry on a bit sequence, v a small natural, eight bits at a time
RECURSIVE MulBits(_, _, _)
MulBits(b, v, carry) ==
    IF b = <<>> THEN BitsOfNat(carry)
    ELSE LET c == IF Len(b) < 8 THEN Len(b) ELSE 8
             t == NatOfBits(SubSeq(b, Len(b) - c + 1, Len(b))) * v + carry
         IN  MulBits(SubSeq(b, 1, Len(b) - c), v, t \div (2 ^ c))
                 \o PadBits(t % (2 ^ c), c)

\* fl(d * v) for a double d and an integer v >= 0
DblMulInt(d, v) ==
    IF d.m = <<>> \/ v = 0 THEN DblZero
    ELSE RoundBits(StripZeros(MulBits(d.m, v, 0)), d.e, FALSE)

\* a + b + carry on bit sequences of the same length, eight bits at a time
RECURSIVE AddBits(_, _, _)
AddBits(a, b, carry) ==
    IF a = <<>> THEN BitsOfNat(carry)
    ELSE LET c == IF Len(a) < 8 THEN Len(a) ELSE 8
             t == NatOfBits(SubSeq(a, Len(a) - c + 1, Len(a)))
                    + NatOfBits(SubSeq(b, Len(b) - c + 1, Len(b))) + carry
         IN  AddBits(SubSeq(a, 1, Len(a) - c), SubSeq(b, 1, Len(b) - c),
                     t \div (2 ^ c)) \o PadBits(t % (2 ^ c), c)

\* fl(n + d) for an integer n >= 0 and a double d
DblAddInt(n, d) ==
    IF d.m = <<>> THEN DblFromInt(n)
    ELSE IF n = 0 THEN d
    ELSE LET e  == IF d.e < 0 THEN d.e ELSE 0
             a0 == BitsOfNat(n) \o Zeros(0 - e)
             b0 == d.m \o Zeros(d.e - e)
             k  == IF Len(a0) > Len(b0) THEN Len(a0) ELSE Len(b0)
             a  == Zeros(k - Len(a0)) \o a0
             b  == Zeros(k - Len(b0)) \o b0
         IN  RoundBits(StripZeros(AddBits(a, b, 0)), e, FALSE)

\* floor(d), for doubles below 2^30
DblFloor(d) ==
    IF d.m = <<>> \/ MantBits + d.e <= 0 THEN 0
    ELSE IF d.e >= 0 THEN NatOfBits(d.m \o Zeros(d.e))
    ELSE NatOfBits(SubSeq(d.m, 1, MantBits + d.e))

\* d is an integer
DblIsInt(d) ==
    \/ d.m = <<>>
    \/ d.e >= 0
    \/ /\ MantBits + d.e > 0
       /\ \A i \in (MantBits + d.e + 1)..MantBits : d.m[i] = 0

\* d >= n and d = n for a double d and an integer n >= 0
DblGeInt(d, n) == DblFloor(d) >= n
DblEqInt(d, n) == DblFloor(d) = n /\ DblIsInt(d)

\* x >= 0.5 for a double x
DblGeHalf(d) == d.m # <<>> /\ MantBits + d.e >= 0

\* a >= b for bit sequences of the same length, eight bits at a time from
\* the most significant
RECURSIVE GeBits(_, _)
GeBits(a, b) ==
    IF a = <<>> THEN TRUE
    ELSE LET c  == IF Len(a) < 8 THEN Len(a) ELSE 8
             ha == NatOfBits(SubSeq(a, 1, c))
             hb == NatOfBits(SubSeq(b, 1, c))
         IN  \/ ha > hb
             \/ ha = hb /\ GeBits(SubSeq(a, c + 1, Len(a)), SubSeq(b, c + 1, Len(b)))

\* a - b - borrow on bit sequences of the same length (a >= b + borrow),
\* eight bits at a time
RECURSIVE SubBits(_, _, _)
SubBits(a, b, borrow) ==
    IF a = <<>> THEN <<>>
    ELSE LET c == IF Len(a) < 8 THEN Len(a) ELSE 8
             t == NatOfBits(SubSeq(a, Len(a) - c + 1, Len(a)))
                    - NatOfBits(SubSeq(b, Len(b) - c + 1, Len(b))) - borrow
         IN  SubBits(SubSeq(a, 1, Len(a) - c), SubSeq(b, 1, Len(b) - c),
                     IF t < 0 THEN 1 ELSE 0)
                 \o PadBits(IF t < 0 THEN t + 2 ^ c ELSE t, c)

\* a >= b for doubles
DblGe(a, b) ==
    \/ b.m = <<>>
    \/ /\ a.m # <<>>
       /\ \/ a.e > b.e
          \/ a.e = b.e /\ GeBits(a.m, b.m)

\* max(a, b) as Python computes it for two floats: b only when b > a
DblMax(a, b) == IF DblGe(a, b) THEN a ELSE b

\* max(0.0, d - n) for a double d and an integer n >= 0: fl(d - n) when it
\* is positive, 0.0 otherwise
DblMaxZeroSubInt(d, n) ==
    IF ~(DblFloor(d) > n \/ (DblFloor(d) = n /\ ~DblIsInt(d))) THEN DblZero
    ELSE IF n = 0 THEN d
    ELSE LET e  == IF d.e < 0 THEN d.e ELSE 0
             a0 == d.m \o Zeros(d.e - e)
             b0 == BitsOfNat(n) \o Zeros(0 - e)
             b  == Zeros(Len(a0) - Len(b0)) \o b0
         IN  RoundBits(StripZeros(SubBits(a0, b, 0)), e, FALSE)

\* the bits of a double d (not zero) down to the exponent e <= d.e
Alinha(d, e) == d.m \o Zeros(d.e - e)

\* fl(a + b) for doubles
DblAdd(a, b) ==
    IF a.m = <<>> THEN b
    ELSE IF b.m = <<>> THEN a
    ELSE LET e  == IF a.e < b.e THEN a.e ELSE b.e
             a0 == Alinha(a, e)
             b0 == Alinha(b, e)
             k  == IF Len(a0) > Len(b0) THEN Len(a0) ELSE Len(b0)
         IN  RoundBits(StripZeros(AddBits(Zeros(k - Len(a0)) \o a0,
                                          Zeros(k - Len(b0)) \o b0, 0)), e, FALSE)

\* fl(a - b) for doubles a >= b
DblSub(a, b) ==
    IF b.m = <<>> THEN a
    ELSE LET e  == IF a.e < b.e THEN a.e ELSE b.e
             a0 == Alinha(a, e)
             b0 == Alinha(b, e)
             k  == IF Len(a0) > Len(b0) THEN Len(a0) ELSE Len(b0)
         IN  RoundBits(StripZeros(SubBits(Zeros(k - Len(a0)) \o a0,
                                          Zeros(k - Len(b0)) \o b0, 0)), e, FALSE)

\* A significand as two numbers of 27 bits, high and low
Metades(m) == <<NatOfBits(SubSeq(m, 1, MantBits - 27)),
                NatOfBits(SubSeq(m, MantBits - 26, MantBits))>>

\* One step of the long division of significands: st is the remainder
\* (below 2 * d) as two halves and the quotient bits found so far
DivStep(st, d) ==
    LET ge  == st[1] > d[1] \/ (st[1] = d[1] /\ st[2] >= d[2])
        lo  == IF ge THEN st[2] - d[2] ELSE st[2]
        hi  == IF ~ge THEN st[1]
               ELSE IF lo < 0 THEN st[1] - d[1] - 1 ELSE st[1] - d[1]
        lo2 == 2 * (IF lo < 0 THEN lo + 2 ^ 27 ELSE lo)
    IN  <<2 * hi + lo2 \div 2 ^ 27, lo2 % 2 ^ 27,
          Append(st[3], IF ge THEN 1 ELSE 0)>>

\* eight steps
DivOito(st, d) ==
    DivStep(DivStep(DivStep(DivStep(DivStep(DivStep(DivStep(DivStep(
        st, d), d), d), d), d), d), d), d)

\* steps until the quotient has at least n bits
RECURSIVE DivBits(_, _, _)
DivBits(st, d, n) ==
    IF Len(st[3]) >= n THEN st ELSE DivBits(DivOito(st, d), d, n)

\* fl(p / q) for doubles p >= 0 and q > 0: the quotient of the significands
\* to MantBits + 3 bits, the first of them the integer part
DblDivDbl(p, q) ==
    IF p.m = <<>> THEN DblZero
    ELSE LET pm == Metades(p.m)
             g  == DivBits(<<pm[1], pm[2], <<>>>>, Metades(q.m), MantBits + 3)
         IN  RoundBits(StripZeros(g[3]), p.e - q.e - (Len(g[3]) - 1),
                       g[1] # 0 \/ g[2] # 0)

\* ------------------------------------------------------------------------
\* Bounds of the instances explored
\* ------------------------------------------------------------------------

MaxItens == 3
MaxValor == 1
MaxPeso == 2
MaxCap == 3
\* items of the instances on which a solver is called with any arguments
MaxItensDireta == 2

\* Instances added to every grid: the worked example of the specification,
\* one whose quotient restante / pesos[i] is not representable in float64, one
\* whose best single item wins the tournament and leaves room for another
\* item, a single item taken at a fraction under one half, and one whose
\* worthless item fills the knapsack while the greedy selection takes the
\* two others, and one on which the best single item beats the greedy
\* selection and no move of the local search improves on it, and a single
\* item that does not fit, whose fraction 7/9 gives a gap that the division
\* rounds up.
InstanciasNotaveis ==
    { [valores |-> <<60, 100, 120>>, pesos |-> <<10, 20, 30>>, capacidade |-> 50],
      [valores |-> <<1, 1, 0>>, pesos |-> <<1, 1, 2>>, capacidade |-> 2],
      [valores |-> <<22, 15>>, pesos |-> <<22, 15>>, capacidade |-> 15],
      [valores |-> <<1, 1, 3>>, pesos |-> <<1, 1, 4>>, capacidade |-> 5],
      [valores |-> <<1>>, pesos |-> <<3>>, capacidade |-> 1],
      [valores |-> <<2, 3>>, pesos |-> <<1, 2>>, capacidade |-> 2],
      [valores |-> <<1>>, pesos |-> <<9>>, capacidade |-> 7] }

SeqsAte(S, n) == UNION { [1..k -> S] : k \in 0..n }

\* the instances of at most n items: values >= 0, weights > 0, capacity >= 0
InstanciasAte(n) ==
    { [valores |-> [i \in 1..Len(it) |-> it[i][1]],
       pesos |-> [i \in 1..Len(it) |-> it[i][2]],
       capacidade |-> c] :
         it \in SeqsAte((0..MaxValor) \X (1..MaxPeso), n), c \in 0..MaxCap }
    \cup InstanciasNotaveis

VARIABLES
    valores,      \* values of the items (index i of the code is i + 1 here)
    pesos,        \* weights of the items
    capacidade,   \* capacity of the knapsack
    ordem,        \* what np.argsort(-(valores / pesos)) returns for this input
    pc,           \* position in executar_instancia
    sol_g,        \* Solucao of gulosa_ratio
    rl,           \* result of relaxacao_linear: x, valor, peso (float64)
    arr,          \* activation of arredondamento_reparo
    sol_a,        \* Solucao of arredondamento_reparo
    bl,           \* activation of busca_local
    sol_bl,       \* Solucao of busca_local
    objetos,      \* the array object each name is bound to (0: none)
    execucao      \* activation of executar_comparacao

vars == <<valores, pesos, capacidade, ordem, pc, sol_g, rl, arr, sol_a, bl, sol_bl,
          objetos, execucao>>

N == Len(valores)

\* an optional argument: None, or the value given
Nenhum == <<>>
Algum(v) == <<v>>

\* ------------------------------------------------------------------------
\* Array objects.  Two names that hold the same numpy array see each
\* other's writes; objetos gives the object behind each name, and prox is
\* the next object not yet allocated.
\* ------------------------------------------------------------------------

ObjetosIniciais ==
    [valores |-> 1, pesos |-> 2, x_frac |-> 0, sol_g |-> 0, selecao_gulosa |-> 0,
     sel |-> 0, sol_a |-> 0, selecao_inicial |-> 0, selecao |-> 0, sol_bl |-> 0,
     prox |-> 3]

\* astype_int that hands back the array it was given
astype_int_sem_copia(obj, livre) == obj

\* ndarray.astype(int): copy is True by default, the result is a new array
\* even when the dtype is already int
astype_int(obj, livre) == livre

\* ndarray.copy(): a new array
copy(obj, livre) == livre

\* selecao_privada that keeps working on the array it was given
selecao_sem_copia(obj, livre) == IF obj = 0 THEN livre ELSE obj

\* the array busca_local works on: gulosa_ratio(...).selecao.copy() when no
\* seed is given (obj = 0), selecao_inicial.astype(int).copy() otherwise
selecao_privada(obj, livre) ==
    IF obj = 0 THEN copy(livre, livre + 1)
    ELSE copy(astype_int(obj, livre), livre + 1)

\* ------------------------------------------------------------------------
\* Helpers
\* ------------------------------------------------------------------------

\* np.dot of a 0/1 vector and an integer-valued vector
RECURSIVE Dot(_, _)
Dot(a, b) ==
    IF a = <<>> THEN 0
    ELSE a[Len(a)] * b[Len(a)] + Dot(SubSeq(a, 1, Len(a) - 1), b)

avaliar(selecao, vs, ps) == [valor |-> Dot(selecao, vs), peso |-> Dot(selecao, ps)]

\* valores / np.maximum(pesos, 1e-12), compared: the float64 quotient is
\* monotone in the exact quotient, and two different quotients of integers
\* this small are never rounded to the same double, so the order of the
\* float ratios is the order of the fractions.
RazaoMenor(i, j) == valores[i] * pesos[j] < valores[j] * pesos[i]

Permutacoes(S) ==
    { p \in [1..Cardinality(S) -> S] : \A i \in S : \E k \in DOMAIN p : p[k] = i }

\* np.argsort(-(razoes[S])) mapped back to the indices: S by descending
\* ratio.  The default kind is quicksort, which is not stable: the order of
\* items of equal ratio is whatever the build yields.
OrdensDecrescentes(S) ==
    { p \in Permutacoes(S) :
        \A k \in 1..(Len(p) - 1) : ~RazaoMenor(p[k], p[k + 1]) }

\* np.argsort(razoes[S]) mapped back to the indices: S by ascending ratio
OrdensCrescentes(S) ==
    { p \in Permutacoes(S) :
        \A k \in 1..(Len(p) - 1) : ~RazaoMenor(p[k + 1], p[k]) }

Selecionados(sel) == { i \in DOMAIN sel : sel[i] = 1 }
NaoSelecionados(sel) == { i \in DOMAIN sel : sel[i] = 0 }

\* melhor_item_que_cabe without the test of the weight against the capacity
melhor_item_sem_teste ==
    LET melhor_idx ==
            IF N = 0 THEN 0
            ELSE CHOOSE i \in 1..N :
                   /\ \A j \in 1..N : valores[j] <= valores[i]
                   /\ \A j \in 1..N : j < i => valores[j] < valores[i]
        selecao == [i \in 1..N |-> IF i = melhor_idx THEN 1 ELSE 0]
    IN  [selecao |-> selecao] @@ avaliar(selecao, valores, pesos)

\* melhor_item_que_cabe: the first item of the highest value among those
\* that fit the capacity alone
melhor_item_que_cabe ==
    LET cabem == { i \in 1..N : pesos[i] <= capacidade }
        melhor_idx ==
            IF cabem = {} THEN 0
            ELSE CHOOSE i \in cabem :
                   /\ \A j \in cabem : valores[j] <= valores[i]
                   /\ \A j \in cabem : j < i => valores[j] < valores[i]
        selecao == [i \in 1..N |-> IF i = melhor_idx THEN 1 ELSE 0]
    IN  [selecao |-> selecao] @@ avaliar(selecao, valores, pesos)

\* ------------------------------------------------------------------------
\* gulosa_ratio
\* ------------------------------------------------------------------------

\* GulosaLaco testing each weight against the whole capacity, not against
\* what is left of it
RECURSIVE GulosaLacoCapacidade(_, _, _, _)
GulosaLacoCapacidade(ord, k, selecao, restante) ==
    IF k > Len(ord) THEN selecao
    ELSE IF pesos[ord[k]] <= capacidade
    THEN GulosaLacoCapacidade(ord, k + 1, [selecao EXCEPT ![ord[k]] = 1],
                              restante - pesos[ord[k]])
    ELSE GulosaLacoCapacidade(ord, k + 1, selecao, restante)

\* GulosaLaco leaving the loop at the first item that does not fit
RECURSIVE GulosaLacoPara(_, _, _, _)
GulosaLacoPara(ord, k, selecao, restante) ==
    IF k > Len(ord) THEN selecao
    ELSE IF pesos[ord[k]] <= restante
    THEN GulosaLacoPara(ord, k + 1, [selecao EXCEPT ![ord[k]] = 1],
                        restante - pesos[ord[k]])
    ELSE selecao

\* the loop over ordem from position k on
RECURSIVE GulosaLaco(_, _, _, _)
GulosaLaco(ord, k, selecao, restante) ==
    IF k > Len(ord) THEN selecao
    ELSE IF pesos[ord[k]] <= restante
    THEN GulosaLaco(ord, k + 1, [selecao EXCEPT ![ord[k]] = 1],
                    restante - pesos[ord[k]])
    ELSE GulosaLaco(ord, k + 1, selecao, restante)

gulosa_ratio(ord) ==
    LET selecao == GulosaLaco(ord, 1, [i \in 1..N |-> 0], capacidade)
    IN  [selecao |-> selecao, metodo |-> "Gulosa"]
            @@ avaliar(selecao, valores, pesos)

\* ------------------------------------------------------------------------
\* relaxacao_linear
\* ------------------------------------------------------------------------

\* RelaxacaoLaco stopping at the first item that does not fit without taking
\* its fraction
RECURSIVE RelaxacaoLacoSemFracao(_, _, _, _, _)
RelaxacaoLacoSemFracao(ord, k, x, restante, valor_total) ==
    IF k > Len(ord) \/ restante <= 0
    THEN [x |-> x, valor |-> DblFromInt(valor_total)]
    ELSE LET i == ord[k] IN
         IF pesos[i] <= restante
         THEN RelaxacaoLacoSemFracao(ord, k + 1, [x EXCEPT ![i] = DblFromInt(1)],
                                     restante - pesos[i], valor_total + valores[i])
         ELSE [x |-> x, valor |-> DblFromInt(valor_total)]

\* the loop over ordem from position k on; valor_total is an integer until
\* the fractional item is reached
RECURSIVE RelaxacaoLaco(_, _, _, _, _)
RelaxacaoLaco(ord, k, x, restante, valor_total) ==
    IF k > Len(ord) \/ restante <= 0
    THEN [x |-> x, valor |-> DblFromInt(valor_total)]
    ELSE LET i == ord[k] IN
         IF pesos[i] <= restante
         THEN RelaxacaoLaco(ord, k + 1, [x EXCEPT ![i] = DblFromInt(1)],
                            restante - pesos[i], valor_total + valores[i])
         ELSE LET frac == DblDiv(restante, pesos[i])
              IN  [x |-> [x EXCEPT ![i] = frac],
                   valor |-> DblAddInt(valor_total, DblMulInt(frac, valores[i]))]

\* np.dot(x, pesos) over the first k entries, summed in index order, each
\* product and each sum rounded.  An entry of x that is an integer gives an
\* integer product; the sum is still an integer when the one fractional
\* entry is met.
RECURSIVE DotFrac(_, _, _)
DotFrac(x, ps, k) ==
    IF k = 0 THEN DblZero
    ELSE LET acc == DotFrac(x, ps, k - 1)
         IN  IF DblIsInt(x[k]) THEN DblAddInt(DblFloor(x[k]) * ps[k], acc)
             ELSE DblAddInt(DblFloor(acc), DblMulInt(x[k], ps[k]))

\* x, float(valor_total) and peso_usado = float(np.dot(x, pesos))
relaxacao_linear(ord) ==
    LET r == RelaxacaoLaco(ord, 1, [i \in 1..N |-> DblZero], capacidade, 0)
    IN  [x |-> r.x, valor |-> r.valor, peso |-> DotFrac(r.x, pesos, N)]

\* ------------------------------------------------------------------------
\* arredondamento_reparo, step by step
\* ------------------------------------------------------------------------

MaxIterPadrao == 10000

ArrInativo == [passo |-> "inativo"]
BLInativo == [passo |-> "inativo"]
ComparacaoInativa == [passo |-> "inativo"]

\* The same argsort call on the same array returns the same order: sorting
\* all the items by descending ratio gives ordem again.
ArgsortDecrescente(S) == IF S = 1..N THEN {ordem} ELSE OrdensDecrescentes(S)
\* ArgsortCrescente sorting the other way round
ArgsortInvertido(S) == OrdensDecrescentes(S)

ArgsortCrescente(S) == OrdensCrescentes(S)

\* 1) sel = (x_frac >= 0.5).astype(int); valor, peso = avaliar(sel, ...)
Limiar(x) == [i \in 1..N |-> IF DblGeHalf(x[i]) THEN 1 ELSE 0]

\* ReparoLaco with the test of the break inverted: nothing is removed
RECURSIVE ReparoLacoInvertido(_, _, _)
ReparoLacoInvertido(ord, k, c) ==
    IF k > Len(ord) \/ c.peso > capacidade THEN c
    ELSE ReparoLacoInvertido(ord, k + 1,
                             [sel |-> [c.sel EXCEPT ![ord[k]] = 0],
                              valor |-> c.valor - valores[ord[k]],
                              peso |-> c.peso - pesos[ord[k]]])

\* ReparoLaco that never removes the last item of ordem_remocao
RECURSIVE ReparoLacoSemUltimo(_, _, _)
ReparoLacoSemUltimo(ord, k, c) ==
    IF k > Len(ord) - 1 \/ c.peso <= capacidade THEN c
    ELSE ReparoLacoSemUltimo(ord, k + 1,
                             [sel |-> [c.sel EXCEPT ![ord[k]] = 0],
                              valor |-> c.valor - valores[ord[k]],
                              peso |-> c.peso - pesos[ord[k]]])

\* 2) the removal loop over ordem_remocao from position k on
RECURSIVE ReparoLaco(_, _, _)
ReparoLaco(ord, k, c) ==
    IF k > Len(ord) \/ c.peso <= capacidade THEN c
    ELSE ReparoLaco(ord, k + 1,
                    [sel |-> [c.sel EXCEPT ![ord[k]] = 0],
                     valor |-> c.valor - valores[ord[k]],
                     peso |-> c.peso - pesos[ord[k]]])

\* ComplementoLaco leaving the loop at the first item that does not fit
RECURSIVE ComplementoLacoPara(_, _, _)
ComplementoLacoPara(ord, k, c) ==
    IF k > Len(ord) THEN c
    ELSE IF c.peso + pesos[ord[k]] <= capacidade
    THEN ComplementoLacoPara(ord, k + 1,
                             [sel |-> [c.sel EXCEPT ![ord[k]] = 1],
                              valor |-> c.valor + valores[ord[k]],
                              peso |-> c.peso + pesos[ord[k]]])
    ELSE c

\* 3) the fill loop over ordem_add from position k on
RECURSIVE ComplementoLaco(_, _, _)
ComplementoLaco(ord, k, c) ==
    IF k > Len(ord) THEN c
    ELSE IF c.peso + pesos[ord[k]] <= capacidade
    THEN ComplementoLaco(ord, k + 1,
                         [sel |-> [c.sel EXCEPT ![ord[k]] = 1],
                          valor |-> c.valor + valores[ord[k]],
                          peso |-> c.peso + pesos[ord[k]]])
    ELSE ComplementoLaco(ord, k + 1, c)

\* ArgMax3 that never looks at the third candidate
ArgMax3SemTerceiro(a, b, c) == IF a >= b THEN 1 ELSE 2

\* ArgMax3 returning the last index of the maximum
ArgMax3Ultimo(a, b, c) ==
    IF c >= a /\ c >= b THEN 3 ELSE IF b >= a THEN 2 ELSE 1

\* np.argmax of the three candidate values: the first index of the maximum
ArgMax3(a, b, c) ==
    IF a >= b /\ a >= c THEN 1 ELSE IF b >= c THEN 2 ELSE 3

\* 5) selecao_gulosa after the default is filled in
selecao_gulosa(g) == IF g = Nenhum THEN gulosa_ratio(ordem).selecao ELSE g[1]

\* 6) best_idx = int(np.argmax([c[1] for c in candidatos])), counted from 1
best_idx(c, g) ==
    ArgMax3(c.valor, melhor_item_que_cabe.valor,
            avaliar(selecao_gulosa(g), valores, pesos).valor)

\* 4), 5), 6): the competitors and the tournament
Torneio(c, g) ==
    LET single == melhor_item_que_cabe
        gv == avaliar(selecao_gulosa(g), valores, pesos)
    IN  IF best_idx(c, g) = 1
        THEN [selecao |-> c.sel, valor |-> c.valor, peso |-> c.peso,
              metodo |-> "Arredondamento"]
        ELSE IF best_idx(c, g) = 2
        THEN [selecao |-> single.selecao, valor |-> single.valor,
              peso |-> single.peso, metodo |-> "Arredondamento"]
        ELSE [selecao |-> selecao_gulosa(g), valor |-> gv.valor, peso |-> gv.peso,
              metodo |-> "Arredondamento"]

\* the call and step 1; ox and og are the arrays passed as x_frac and
\* selecao_gulosa (og = 0 for None), livre the first object not allocated
ArredLimiar(x, g, ox, og, livre) ==
    /\ arr.passo = "inativo"
    /\ LET sel == Limiar(x)
       IN  arr' = [passo |-> "limiar", x |-> x, g |-> g,
                   c |-> [sel |-> sel] @@ avaliar(sel, valores, pesos),
                   ordem_remocao |-> <<>>]
    /\ objetos' = [objetos EXCEPT !.x_frac = ox,
                                  !.selecao_gulosa = og,
                                  !.sel = astype_int(livre, livre + 1),
                                  !.prox = livre + 2]
    /\ UNCHANGED <<execucao, valores, pesos, capacidade, ordem, pc, sol_g, rl, sol_a, bl, sol_bl>>

\* step 2
ArredReparo ==
    /\ arr.passo = "limiar"
    /\ IF arr.c.peso > capacidade
       THEN \E ordem_remocao \in ArgsortCrescente(Selecionados(arr.c.sel)) :
               arr' = [arr EXCEPT !.passo = "reparo",
                                  !.c = ReparoLaco(ordem_remocao, 1, arr.c),
                                  !.ordem_remocao = ordem_remocao]
       ELSE arr' = [arr EXCEPT !.passo = "reparo"]
    /\ UNCHANGED <<objetos, execucao, valores, pesos, capacidade, ordem, pc, sol_g, rl, sol_a, bl, sol_bl>>

\* step 3
ArredComplemento ==
    /\ arr.passo = "reparo"
    /\ IF arr.c.peso < capacidade
       THEN \E ordem_add \in ArgsortDecrescente(NaoSelecionados(arr.c.sel)) :
               arr' = [arr EXCEPT !.passo = "complemento",
                                  !.c = ComplementoLaco(ordem_add, 1, arr.c)]
       ELSE arr' = [arr EXCEPT !.passo = "complemento"]
    /\ UNCHANGED <<objetos, execucao, valores, pesos, capacidade, ordem, pc, sol_g, rl, sol_a, bl, sol_bl>>

\* steps 4 to 6 and the return
ArredTorneio ==
    /\ arr.passo = "complemento"
    /\ sol_a' = Torneio(arr.c, arr.g)
    /\ arr' = [arr EXCEPT !.passo = "fim"]
    /\ pc' = IF pc = "relaxacao" THEN "arredondamento" ELSE pc
    /\ LET \* melhor_item_que_cabe and, for None, gulosa_ratio allocate
           single_sel == objetos.prox
           gulosa == IF arr.g = Nenhum THEN objetos.prox + 1 ELSE objetos.selecao_gulosa
           best_sel == IF best_idx(arr.c, arr.g) = 1 THEN objetos.sel
                       ELSE IF best_idx(arr.c, arr.g) = 2 THEN single_sel
                       ELSE gulosa
       IN  objetos' = [objetos EXCEPT !.selecao_gulosa = gulosa,
                                      !.sol_a = astype_int(best_sel, objetos.prox + 2),
                                      !.prox = @ + 3]
    /\ UNCHANGED <<execucao, valores, pesos, capacidade, ordem, sol_g, rl, bl, sol_bl>>

\* ------------------------------------------------------------------------
\* busca_local, one loop iteration per action
\* ------------------------------------------------------------------------

\* PodeAdicionar with < for <= in the test of the capacity
PodeAdicionarEstrito(b) ==
    { j \in NaoSelecionados(b.selecao) :
        /\ b.peso + pesos[j] < capacidade
        /\ valores[j] > 0
        /\ b.valor + valores[j] > b.valor }

\* PodeAdicionar without the tests of the value
PodeAdicionarSemValor(b) ==
    { j \in NaoSelecionados(b.selecao) : b.peso + pesos[j] <= capacidade }

\* the items the add scan accepts
PodeAdicionar(b) ==
    { j \in NaoSelecionados(b.selecao) :
        /\ b.peso + pesos[j] <= capacidade
        /\ valores[j] > 0
        /\ b.valor + valores[j] > b.valor }

\* PodeTrocar with >= for > in the test of the gain
PodeTrocarNaoEstrito(b) ==
    { par \in Selecionados(b.selecao) \X NaoSelecionados(b.selecao) :
        /\ b.peso + (pesos[par[2]] - pesos[par[1]]) <= capacidade
        /\ valores[par[2]] - valores[par[1]] >= 0 }

\* PodeTrocar without the test of the capacity
PodeTrocarSemPeso(b) ==
    { par \in Selecionados(b.selecao) \X NaoSelecionados(b.selecao) :
        valores[par[2]] - valores[par[1]] > 0 }

\* the pairs the swap scan accepts
PodeTrocar(b) ==
    { par \in Selecionados(b.selecao) \X NaoSelecionados(b.selecao) :
        /\ b.peso + (pesos[par[2]] - pesos[par[1]]) <= capacidade
        /\ valores[par[2]] - valores[par[1]] > 0 }

\* Minimo returning the highest index
Maximo(S) == CHOOSE m \in S : \A k \in S : m >= k

\* the first index the scan of indices_nao meets
Minimo(S) == CHOOSE m \in S : \A k \in S : m <= k

\* PrimeiroPar returning the last pair of the nested scan
UltimoPar(P) ==
    CHOOSE par \in P :
        \A q \in P : par[1] > q[1] \/ (par[1] = q[1] /\ par[2] >= q[2])

\* the first pair in the nested scan: i outer, j inner, both ascending
PrimeiroPar(P) ==
    CHOOSE par \in P :
        \A q \in P : par[1] < q[1] \/ (par[1] = q[1] /\ par[2] <= q[2])

Retorno(b) ==
    [selecao |-> b.selecao, valor |-> b.valor, peso |-> b.peso,
     metodo |-> "Busca Local"]

\* A write to the array behind the local selecao of busca_local, seen from
\* a Solucao whose selecao is bound to nome: the record holds the new
\* contents when it is the same array, and is untouched otherwise.
VistoDe(sol, nome, nova) ==
    IF objetos[nome] = objetos.selecao THEN [sol EXCEPT !.selecao = nova] ELSE sol

\* the same write seen from the argument selecao_inicial
InicialApos(nova) ==
    IF objetos.selecao_inicial = objetos.selecao THEN Algum(nova) ELSE bl.inicial

\* the call: the private copy of the seed and its evaluation; oi is the
\* array passed as selecao_inicial (0 for None), livre the first object not
\* allocated
BLInicio(selecao_inicial, max_iter, oi, livre) ==
    /\ bl.passo = "inativo"
    /\ LET selecao == IF selecao_inicial = Nenhum
                      THEN gulosa_ratio(ordem).selecao
                      ELSE selecao_inicial[1]
       IN  bl' = [passo |-> "laco", inicial |-> selecao_inicial,
                  max_iter |-> max_iter, iteracoes |-> 0,
                  selecao |-> selecao] @@ avaliar(selecao, valores, pesos)
    /\ objetos' = [objetos EXCEPT !.selecao_inicial = oi,
                                  !.selecao = selecao_privada(oi, livre),
                                  !.prox = livre + 2]
    /\ UNCHANGED <<execucao, valores, pesos, capacidade, ordem, pc, sol_g, rl, arr, sol_a, sol_bl>>

\* BLAdicao without the test of the while against max_iter
BLAdicaoSemLimite ==
    /\ bl.passo = "laco"
    /\ PodeAdicionar(bl) # {}
    /\ LET j == Minimo(PodeAdicionar(bl))
           nova == [bl.selecao EXCEPT ![j] = 1]
       IN  /\ bl' = [bl EXCEPT !.iteracoes = @ + 1,
                               !.selecao = nova,
                               !.valor = @ + valores[j],
                               !.peso = @ + pesos[j],
                               !.inicial = InicialApos(nova)]
           /\ sol_g' = VistoDe(sol_g, "sol_g", nova)
           /\ sol_a' = VistoDe(sol_a, "sol_a", nova)
    /\ UNCHANGED <<objetos, execucao, valores, pesos, capacidade, ordem, pc, rl, arr, sol_bl>>

\* an iteration whose add scan finds an item
BLAdicao ==
    /\ bl.passo = "laco"
    /\ bl.iteracoes < bl.max_iter
    /\ PodeAdicionar(bl) # {}
    /\ LET j == Minimo(PodeAdicionar(bl))
           nova == [bl.selecao EXCEPT ![j] = 1]
       IN  /\ bl' = [bl EXCEPT !.iteracoes = @ + 1,
                               !.selecao = nova,
                               !.valor = @ + valores[j],
                               !.peso = @ + pesos[j],
                               !.inicial = InicialApos(nova)]
           /\ sol_g' = VistoDe(sol_g, "sol_g", nova)
           /\ sol_a' = VistoDe(sol_a, "sol_a", nova)
    /\ UNCHANGED <<objetos, execucao, valores, pesos, capacidade, ordem, pc, rl, arr, sol_bl>>

\* an iteration whose add scan finds nothing and whose swap scan finds a pair
BLTroca ==
    /\ bl.passo = "laco"
    /\ bl.iteracoes < bl.max_iter
    /\ PodeAdicionar(bl) = {}
    /\ PodeTrocar(bl) # {}
    /\ LET par == PrimeiroPar(PodeTrocar(bl))
           i == par[1]
           j == par[2]
           nova == [bl.selecao EXCEPT ![i] = 0, ![j] = 1]
       IN  /\ bl' = [bl EXCEPT !.iteracoes = @ + 1,
                               !.selecao = nova,
                               !.peso = @ + (pesos[j] - pesos[i]),
                               !.valor = @ + (valores[j] - valores[i]),
                               !.inicial = InicialApos(nova)]
           /\ sol_g' = VistoDe(sol_g, "sol_g", nova)
           /\ sol_a' = VistoDe(sol_a, "sol_a", nova)
    /\ UNCHANGED <<objetos, execucao, valores, pesos, capacidade, ordem, pc, rl, arr, sol_bl>>

\* BLOtimoLocal never taken on an instance without items
BLOtimoLocalComItens ==
    /\ N > 0
    /\ bl.passo = "laco"
    /\ bl.iteracoes < bl.max_iter
    /\ PodeAdicionar(bl) = {}
    /\ PodeTrocar(bl) = {}
    /\ bl' = [bl EXCEPT !.iteracoes = @ + 1, !.passo = "otimo_local"]
    /\ sol_bl' = Retorno(bl)
    /\ objetos' = [objetos EXCEPT !.sol_bl = objetos.selecao]
    /\ pc' = IF pc = "arredondamento" THEN "busca_local" ELSE pc
    /\ UNCHANGED <<execucao, valores, pesos, capacidade, ordem, sol_g, rl, arr, sol_a>>

\* an iteration that finds no move: break, and the return
BLOtimoLocal ==
    /\ bl.passo = "laco"
    /\ bl.iteracoes < bl.max_iter
    /\ PodeAdicionar(bl) = {}
    /\ PodeTrocar(bl) = {}
    /\ bl' = [bl EXCEPT !.iteracoes = @ + 1, !.passo = "otimo_local"]
    /\ sol_bl' = Retorno(bl)
    /\ objetos' = [objetos EXCEPT !.sol_bl = objetos.selecao]
    /\ pc' = IF pc = "arredondamento" THEN "busca_local" ELSE pc
    /\ UNCHANGED <<execucao, valores, pesos, capacidade, ordem, sol_g, rl, arr, sol_a>>

\* the loop condition fails: iteracoes reached max_iter, and the return
BLLimite ==
    /\ bl.passo = "laco"
    /\ bl.iteracoes >= bl.max_iter
    /\ bl' = [bl EXCEPT !.passo = "limite"]
    /\ sol_bl' = Retorno(bl)
    /\ objetos' = [objetos EXCEPT !.sol_bl = objetos.selecao]
    /\ pc' = IF pc = "arredondamento" THEN "busca_local" ELSE pc
    /\ UNCHANGED <<execucao, valores, pesos, capacidade, ordem, sol_g, rl, arr, sol_a>>

\* ------------------------------------------------------------------------
\* executar_instancia
\* ------------------------------------------------------------------------

InitInstancia(n) ==
    /\ \E inst \in InstanciasAte(n) :
          /\ valores = inst.valores
          /\ pesos = inst.pesos
          /\ capacidade = inst.capacidade
    /\ ordem \in OrdensDecrescentes(1..Len(valores))
    /\ sol_g = Nenhum
    /\ rl = Nenhum
    /\ arr = ArrInativo
    /\ sol_a = Nenhum
    /\ bl = BLInativo
    /\ sol_bl = Nenhum
    /\ objetos = ObjetosIniciais
    /\ execucao = ComparacaoInativa

Init == InitInstancia(MaxItens) /\ pc = "inicio"

\* sol_g = gulosa_ratio(valores, pesos, capacidade)
Gulosa ==
    /\ pc = "inicio"
    /\ sol_g' = gulosa_ratio(ordem)
    /\ pc' = "gulosa"
    /\ objetos' = [objetos EXCEPT !.sol_g = objetos.prox, !.prox = @ + 1]
    /\ UNCHANGED <<execucao, valores, pesos, capacidade, ordem, rl, arr, sol_a, bl, sol_bl>>

\* x_frac, ub, peso_frac, t_rl = relaxacao_linear(valores, pesos, capacidade)
Relaxacao ==
    /\ pc = "gulosa"
    /\ rl' = relaxacao_linear(ordem)
    /\ pc' = "relaxacao"
    /\ objetos' = [objetos EXCEPT !.x_frac = objetos.prox, !.prox = @ + 1]
    /\ UNCHANGED <<execucao, valores, pesos, capacidade, ordem, sol_g, arr, sol_a, bl, sol_bl>>

\* arredondamento_reparo(x_frac, ..., selecao_gulosa=sol_g.selecao)
ArredChamada ==
    /\ pc = "relaxacao"
    /\ ArredLimiar(rl.x, Algum(sol_g.selecao), objetos.x_frac, objetos.sol_g,
                   objetos.prox)

\* base_sel with the two branches exchanged
base_sel_trocado == IF sol_g.valor >= sol_a.valor THEN sol_a.selecao ELSE sol_g.selecao

\* base_sel = sol_g.selecao if sol_g.valor >= sol_a.valor else sol_a.selecao
base_sel == IF sol_g.valor >= sol_a.valor THEN sol_g.selecao ELSE sol_a.selecao

\* the array base_sel is bound to
base_obj == IF sol_g.valor >= sol_a.valor THEN objetos.sol_g ELSE objetos.sol_a

\* busca_local(valores, pesos, capacidade, selecao_inicial=base_sel)
BLChamada ==
    /\ pc = "arredondamento"
    /\ BLInicio(Algum(base_sel), MaxIterPadrao, base_obj, objetos.prox)

\* BLLimite is left out: with max_iter at its default the loop of an
\* instance of a few items always ends at a local optimum first.
Next ==
    \/ Gulosa
    \/ Relaxacao
    \/ ArredChamada
    \/ ArredReparo
    \/ ArredComplemento
    \/ ArredTorneio
    \/ BLChamada
    \/ BLAdicao
    \/ BLTroca
    \/ BLOtimoLocal

Spec == Init /\ [][Next]_vars

\* ------------------------------------------------------------------------
\* executar_comparacao
\* ------------------------------------------------------------------------

MaxInstancias == 3

\* The files a path of the list may name, numbered in the order of their
\* base names.
Arquivos == 1..5

\* carregar_instancia_mochila raises on files 2 and 4 (no such file, a
\* column missing, a value that is not a number)
Falha(f) == f \in {2, 4}

\* what carregar_instancia_mochila returns for the other files
Conteudo(f) ==
    CASE f = 1 -> [valores |-> <<60, 100, 120>>, pesos |-> <<10, 20, 30>>,
                   capacidade |-> 50]
      [] f = 3 -> [valores |-> <<1>>, pesos |-> <<3>>, capacidade |-> 1]
      [] f = 5 -> [valores |-> <<1, 1, 3>>, pesos |-> <<1, 1, 4>>, capacidade |-> 5]

\* melhor_sol taking the last of the highest value
melhor_sol_ultimo ==
    IF sol_bl.valor >= sol_a.valor /\ sol_bl.valor >= sol_g.valor THEN sol_bl
    ELSE IF sol_a.valor >= sol_g.valor THEN sol_a
    ELSE sol_g

\* melhor_sol = max([sol_g, sol_a, sol_bl], key=lambda s: s.valor): the first
\* of the highest value
melhor_sol ==
    IF sol_g.valor >= sol_a.valor /\ sol_g.valor >= sol_bl.valor THEN sol_g
    ELSE IF sol_a.valor >= sol_bl.valor THEN sol_a
    ELSE sol_bl

\* eps = 1e-12, the double 0x1.19799812dea11p-40
eps == [m |-> <<1>> \o PadBits(26712449, 28) \o PadBits(3009041, 24), e |-> -92]

\* 100.0 * max(0.0, (ub - valor)) / max(ub, eps)
gap(valor) ==
    DblDivDbl(DblMulInt(DblMaxZeroSubInt(rl.valor, valor), 100),
              DblMax(rl.valor, eps))

gap_g == gap(sol_g.valor)
gap_a == gap(sol_a.valor)
gap_bl == gap(sol_bl.valor)

\* the dictionary executar_instancia returns, without its time columns
Linha(path) ==
    [Instancia |-> path, n_itens |-> N, Capacidade |-> capacidade,
     Greedy_valor |-> sol_g.valor, Greedy_peso |-> sol_g.peso,
     RL_UB |-> rl.valor,
     Arred_valor |-> sol_a.valor, Arred_peso |-> sol_a.peso,
     BL_valor |-> sol_bl.valor, BL_peso |-> sol_bl.peso,
     Gap_Greedy |-> gap_g, Gap_Arred |-> gap_a, Gap_BL |-> gap_bl,
     Melhor_metodo |-> melhor_sol.metodo, Melhor_valor |-> melhor_sol.valor]

\* df.sort_values(by=["n_itens", "Instancia"]): the rows in ascending order
\* of the two keys
sort_values(linhas) ==
    { [i \in 1..Len(linhas) |-> linhas[p[i]]] :
        p \in { q \in Permutacoes(1..Len(linhas)) :
                 \A i \in 1..(Len(linhas) - 1) :
                    \/ linhas[q[i]].n_itens < linhas[q[i + 1]].n_itens
                    \/ /\ linhas[q[i]].n_itens = linhas[q[i + 1]].n_itens
                       /\ linhas[q[i]].Instancia <= linhas[q[i + 1]].Instancia } }

\* TrataExcecao letting the exception leave executar_comparacao
TrataExcecaoAborta(e) ==
    [e EXCEPT !.saida = Append(@, [path |-> e.instancias[e.k], erro |-> TRUE]),
              !.passo = "abortado"]

\* the except branch: the failure is printed and the loop goes on
TrataExcecao(e) ==
    [e EXCEPT !.saida = Append(@, [path |-> e.instancias[e.k], erro |-> TRUE]),
              !.k = @ + 1]

InitComparacao ==
    /\ \E instancias \in SeqsAte(Arquivos, MaxInstancias) :
          execucao = [passo |-> "laco", instancias |-> instancias, k |-> 1,
                      resultados |-> <<>>, saida |-> <<>>, df |-> <<>>]
    /\ pc = "comparacao"
    /\ valores = <<>>
    /\ pesos = <<>>
    /\ capacidade = 0
    /\ ordem = <<>>
    /\ sol_g = Nenhum
    /\ rl = Nenhum
    /\ arr = ArrInativo
    /\ sol_a = Nenhum
    /\ bl = BLInativo
    /\ sol_bl = Nenhum
    /\ objetos = ObjetosIniciais

NoLaco ==
    /\ execucao.passo = "laco"
    /\ pc = "comparacao"
    /\ execucao.k <= Len(execucao.instancias)

\* executar_instancia(path) raises in the loader
CompFalha ==
    /\ NoLaco
    /\ Falha(execucao.instancias[execucao.k])
    /\ execucao' = TrataExcecao(execucao)
    /\ UNCHANGED <<valores, pesos, capacidade, ordem, pc, sol_g, rl, arr, sol_a,
                   bl, sol_bl, objetos>>

\* executar_instancia(path) loads the instance; its locals are new
CompCarrega ==
    /\ NoLaco
    /\ ~Falha(execucao.instancias[execucao.k])
    /\ LET inst == Conteudo(execucao.instancias[execucao.k])
       IN  /\ valores' = inst.valores
           /\ pesos' = inst.pesos
           /\ capacidade' = inst.capacidade
    /\ ordem' \in (OrdensDecrescentes(1..N))'
    /\ pc' = "inicio"
    /\ sol_g' = Nenhum
    /\ rl' = Nenhum
    /\ arr' = ArrInativo
    /\ sol_a' = Nenhum
    /\ bl' = BLInativo
    /\ sol_bl' = Nenhum
    /\ objetos' = ObjetosIniciais
    /\ UNCHANGED execucao

\* executar_instancia returns and resultados.append takes the row
CompLinha ==
    /\ execucao.passo = "laco"
    /\ pc = "busca_local"
    /\ LET path == execucao.instancias[execucao.k]
       IN  execucao' = [execucao EXCEPT
                           !.resultados = Append(@, Linha(path)),
                           !.saida = Append(@, [path |-> path, erro |-> FALSE]),
                           !.k = @ + 1]
    /\ pc' = "comparacao"
    /\ UNCHANGED <<valores, pesos, capacidade, ordem, sol_g, rl, arr, sol_a,
                   bl, sol_bl, objetos>>

\* the list is exhausted: the table is built and sorted
CompFim ==
    /\ execucao.passo = "laco"
    /\ pc = "comparacao"
    /\ execucao.k > Len(execucao.instancias)
    /\ \E df \in sort_values(execucao.resultados) :
          execucao' = [execucao EXCEPT !.df = df, !.passo = "fim"]
    /\ UNCHANGED <<valores, pesos, capacidade, ordem, pc, sol_g, rl, arr, sol_a,
                   bl, sol_bl, objetos>>

NextComparacao ==
    \/ CompFalha
    \/ CompCarrega
    \/ Gulosa
    \/ Relaxacao
    \/ ArredChamada
    \/ ArredReparo
    \/ ArredComplemento
    \/ ArredTorneio
    \/ BLChamada
    \/ BLAdicao
    \/ BLTroca
    \/ BLOtimoLocal
    \/ CompLinha
    \/ CompFim

SpecComparacao == InitComparacao /\ [][NextComparacao]_vars

\* ------------------------------------------------------------------------
\* The solvers called on their own, with any arguments; one call per run
\* ------------------------------------------------------------------------

MaxIterTeste == 2

InitDireta == InitInstancia(MaxItensDireta) /\ pc = "direta"

Selecoes == [1..N -> {0, 1}]
SelecoesViaveis == { s \in Selecoes : Dot(s, pesos) <= capacidade }

\* entries of a fractional vector: one under the threshold, one on it
XFracValores == { DblDiv(1, 4), DblDiv(1, 2) }

NadaChamado == pc = "direta" /\ arr.passo = "inativo" /\ bl.passo = "inativo"

\* gulosa_ratio(valores, pesos, capacidade)
GulosaDireta ==
    /\ NadaChamado
    /\ sol_g' = gulosa_ratio(ordem)
    /\ pc' = "gulosa_direta"
    /\ objetos' = [objetos EXCEPT !.sol_g = objetos.prox, !.prox = @ + 1]
    /\ UNCHANGED <<execucao, valores, pesos, capacidade, ordem, rl, arr, sol_a, bl, sol_bl>>

\* relaxacao_linear(valores, pesos, capacidade)
RelaxacaoDireta ==
    /\ NadaChamado
    /\ rl' = relaxacao_linear(ordem)
    /\ pc' = "relaxacao_direta"
    /\ objetos' = [objetos EXCEPT !.x_frac = objetos.prox, !.prox = @ + 1]
    /\ UNCHANGED <<execucao, valores, pesos, capacidade, ordem, sol_g, arr, sol_a, bl, sol_bl>>

\* arredondamento_reparo(x_frac, valores, pesos, capacidade[, selecao_gulosa])
ArredDireta ==
    /\ NadaChamado
    /\ \E x \in [1..N -> XFracValores], g \in {Nenhum} \cup { Algum(s) : s \in SelecoesViaveis } :
          \* the caller's arrays are objects prox and prox + 1
          ArredLimiar(x, g, objetos.prox,
                      IF g = Nenhum THEN 0 ELSE objetos.prox + 1, objetos.prox + 2)

\* busca_local(valores, pesos, capacidade[, selecao_inicial][, max_iter])
BLDireta ==
    /\ NadaChamado
    /\ \E s \in {Nenhum} \cup { Algum(t) : t \in Selecoes }, max_iter \in (0..MaxIterTeste) \cup {MaxIterPadrao} :
          \* the caller's array is object prox
          BLInicio(s, max_iter, IF s = Nenhum THEN 0 ELSE objetos.prox,
                   objetos.prox + 1)

NextArred ==
    \/ ArredDireta
    \/ ArredReparo
    \/ ArredComplemento
    \/ ArredTorneio

SpecArred == InitDireta /\ [][NextArred]_vars

NextBL ==
    \/ BLDireta
    \/ BLAdicao
    \/ BLTroca
    \/ BLOtimoLocal
    \/ BLLimite

SpecBL == InitDireta /\ [][NextBL]_vars

\* busca_local runs on one thread until it returns: an iteration of its loop
\* that can be taken is taken
SpecBLJusta ==
    SpecBL /\ WF_vars(BLAdicao \/ BLTroca \/ BLOtimoLocal \/ BLLimite)

NextDireta ==
    \/ GulosaDireta
    \/ RelaxacaoDireta
    \/ NextArred
    \/ NextBL

SpecDireta == InitDireta /\ [][NextDireta]_vars

\* ------------------------------------------------------------------------
\* gulosa_ratio and busca_local on inputs that are not integers: values,
\* weights and capacity are float64, and so are restante and the tracked
\* valor and peso, each updated by rounded additions and subtractions.
\* ------------------------------------------------------------------------

\* two items: values the doubles nearest to 0.1, 0.2, 0.3 or 0.9, weights
\* those nearest to 0.1 or 0.4, capacity 0.5 or 1.0
InstanciasDecimais ==
    { [valores |-> <<DblDiv(a, 10), DblDiv(b, 10)>>,
       pesos |-> <<DblDiv(p, 10), DblDiv(q, 10)>>,
       capacidade |-> DblDiv(c, 10)] :
         a \in {1, 2, 3, 9}, b \in {1, 2, 3, 9}, p \in {1, 4}, q \in {1, 4},
         c \in {5, 10} }

\* np.dot(a, b) over the first k entries, a a 0/1 vector, b of doubles; for
\* up to two entries the sum does not depend on the order of summation
RECURSIVE DotDecimal(_, _, _)
DotDecimal(a, b, k) ==
    IF k = 0 THEN DblZero
    ELSE DblAdd(DotDecimal(a, b, k - 1), IF a[k] = 1 THEN b[k] ELSE DblZero)

avaliar_decimal(selecao, vs, ps) ==
    [valor |-> DotDecimal(selecao, vs, Len(selecao)),
     peso |-> DotDecimal(selecao, ps, Len(selecao))]

\* valores / np.maximum(pesos, 1e-12), one entry
RazaoDecimal(i) == DblDivDbl(valores[i], DblMax(pesos[i], eps))

\* np.argsort(-razoes): the items by descending ratio, items of equal ratio
\* in whatever order the build yields
OrdensDecimais ==
    { p \in Permutacoes(1..Len(valores)) :
        \A k \in 1..(Len(p) - 1) : DblGe(RazaoDecimal(p[k]), RazaoDecimal(p[k + 1])) }

\* the loop of gulosa_ratio over ordem from position k on
RECURSIVE GulosaLacoDecimal(_, _, _, _)
GulosaLacoDecimal(ord, k, selecao, restante) ==
    IF k > Len(ord) THEN selecao
    ELSE IF DblGe(restante, pesos[ord[k]])
    THEN GulosaLacoDecimal(ord, k + 1, [selecao EXCEPT ![ord[k]] = 1],
                           DblSub(restante, pesos[ord[k]]))
    ELSE GulosaLacoDecimal(ord, k + 1, selecao, restante)

gulosa_ratio_decimal(ord) ==
    LET selecao == GulosaLacoDecimal(ord, 1, [i \in 1..N |-> 0], capacidade)
    IN  [selecao |-> selecao, metodo |-> "Gulosa"]
            @@ avaliar_decimal(selecao, valores, pesos)

InitDecimal ==
    /\ \E inst \in InstanciasDecimais :
          /\ valores = inst.valores
          /\ pesos = inst.pesos
          /\ capacidade = inst.capacidade
    /\ ordem \in OrdensDecimais
    /\ pc = "decimal"
    /\ sol_g = Nenhum
    /\ rl = Nenhum
    /\ arr = ArrInativo
    /\ sol_a = Nenhum
    /\ bl = BLInativo
    /\ sol_bl = Nenhum
    /\ objetos = ObjetosIniciais
    /\ execucao = ComparacaoInativa

\* gulosa_ratio(valores, pesos, capacidade)
GulosaDecimal ==
    /\ pc = "decimal"
    /\ bl.passo = "inativo"
    /\ sol_g' = gulosa_ratio_decimal(ordem)
    /\ pc' = "gulosa_decimal"
    /\ objetos' = [objetos EXCEPT !.sol_g = objetos.prox, !.prox = @ + 1]
    /\ UNCHANGED <<execucao, valores, pesos, capacidade, ordem, rl, arr, sol_a, bl, sol_bl>>

\* peso + (pesos[j] - pesos[i]); the model has no negative doubles, so a
\* negative delta_peso is subtracted as its absolute value (a - b and
\* -(b - a) round alike).  i is selected, so peso is not below the amount
\* subtracted.
PesoComDelta(peso, i, j) ==
    IF DblGe(pesos[j], pesos[i])
    THEN DblAdd(peso, DblSub(pesos[j], pesos[i]))
    ELSE DblSub(peso, DblSub(pesos[i], pesos[j]))

\* the items the add scan accepts
PodeAdicionarDecimal(b) ==
    { j \in NaoSelecionados(b.selecao) :
        /\ DblGe(capacidade, DblAdd(b.peso, pesos[j]))
        /\ valores[j] # DblZero
        /\ ~DblGe(b.valor, DblAdd(b.valor, valores[j])) }

\* the pairs the swap scan accepts: delta_valor = valores[j] - valores[i] > 0
PodeTrocarDecimal(b) ==
    { par \in Selecionados(b.selecao) \X NaoSelecionados(b.selecao) :
        /\ DblGe(capacidade, PesoComDelta(b.peso, par[1], par[2]))
        /\ ~DblGe(valores[par[1]], valores[par[2]]) }

\* busca_local(valores, pesos, capacidade[, selecao_inicial][, max_iter])
BLDecimalChamada ==
    /\ pc = "decimal"
    /\ bl.passo = "inativo"
    /\ \E ini \in {Nenhum} \cup { Algum(t) : t \in Selecoes },
          max_iter \in (0..MaxIterTeste) \cup {MaxIterPadrao} :
          LET selecao == IF ini = Nenhum
                         THEN gulosa_ratio_decimal(ordem).selecao
                         ELSE ini[1]
              oi == IF ini = Nenhum THEN 0 ELSE objetos.prox
          IN  /\ bl' = [passo |-> "laco", inicial |-> ini, max_iter |-> max_iter,
                        iteracoes |-> 0, selecao |-> selecao]
                          @@ avaliar_decimal(selecao, valores, pesos)
              /\ objetos' = [objetos EXCEPT
                                !.selecao_inicial = oi,
                                !.selecao = selecao_privada(oi, objetos.prox + 1),
                                !.prox = @ + 3]
    /\ UNCHANGED <<execucao, valores, pesos, capacidade, ordem, pc, sol_g, rl, arr, sol_a, sol_bl>>

\* an iteration whose add scan finds an item: valor = novo_valor
BLDecimalAdicao ==
    /\ pc = "decimal"
    /\ bl.passo = "laco"
    /\ bl.iteracoes < bl.max_iter
    /\ PodeAdicionarDecimal(bl) # {}
    /\ LET j == Minimo(PodeAdicionarDecimal(bl))
           nova == [bl.selecao EXCEPT ![j] = 1]
       IN  bl' = [bl EXCEPT !.iteracoes = @ + 1,
                            !.selecao = nova,
                            !.valor = DblAdd(@, valores[j]),
                            !.peso = DblAdd(@, pesos[j]),
                            !.inicial = InicialApos(nova)]
    /\ UNCHANGED <<objetos, execucao, valores, pesos, capacidade, ordem, pc, sol_g, rl, arr, sol_a, sol_bl>>

\* an iteration whose swap scan finds a pair: peso += delta_peso and
\* valor += delta_valor
BLDecimalTroca ==
    /\ pc = "decimal"
    /\ bl.passo = "laco"
    /\ bl.iteracoes < bl.max_iter
    /\ PodeAdicionarDecimal(bl) = {}
    /\ PodeTrocarDecimal(bl) # {}
    /\ LET par == PrimeiroPar(PodeTrocarDecimal(bl))
           i == par[1]
           j == par[2]
           nova == [bl.selecao EXCEPT ![i] = 0, ![j] = 1]
       IN  bl' = [bl EXCEPT !.iteracoes = @ + 1,
                            !.selecao = nova,
                            !.peso = PesoComDelta(@, i, j),
                            !.valor = DblAdd(@, DblSub(valores[j], valores[i])),
                            !.inicial = InicialApos(nova)]
    /\ UNCHANGED <<objetos, execucao, valores, pesos, capacidade, ordem, pc, sol_g, rl, arr, sol_a, sol_bl>>

\* an iteration that finds no move: break, and the return
BLDecimalOtimoLocal ==
    /\ pc = "decimal"
    /\ bl.passo = "laco"
    /\ bl.iteracoes < bl.max_iter
    /\ PodeAdicionarDecimal(bl) = {}
    /\ PodeTrocarDecimal(bl) = {}
    /\ bl' = [bl EXCEPT !.iteracoes = @ + 1, !.passo = "otimo_local"]
    /\ sol_bl' = Retorno(bl)
    /\ objetos' = [objetos EXCEPT !.sol_bl = objetos.selecao]
    /\ UNCHANGED <<execucao, valores, pesos, capacidade, ordem, pc, sol_g, rl, arr, sol_a>>

\* the loop condition fails: iteracoes reached max_iter, and the return
BLDecimalLimite ==
    /\ pc = "decimal"
    /\ bl.passo = "laco"
    /\ bl.iteracoes >= bl.max_iter
    /\ bl' = [bl EXCEPT !.passo = "limite"]
    /\ sol_bl' = Retorno(bl)
    /\ objetos' = [objetos EXCEPT !.sol_bl = objetos.selecao]
    /\ UNCHANGED <<execucao, valores, pesos, capacidade, ordem, pc, sol_g, rl, arr, sol_a>>

NextDecimal ==
    \/ GulosaDecimal
    \/ BLDecimalChamada
    \/ BLDecimalAdicao
    \/ BLDecimalTroca
    \/ BLDecimalOtimoLocal
    \/ BLDecimalLimite

SpecDecimal == InitDecimal /\ [][NextDecimal]_vars

\* executar_instancia, or one solver called on its own
InitTodas == InitInstancia(MaxItensDireta) /\ pc \in {"inicio", "direta"}

NextTodas ==
    \/ Gulosa
    \/ Relaxacao
    \/ ArredChamada
    \/ BLChamada
    \/ GulosaDireta
    \/ RelaxacaoDireta
    \/ ArredDireta
    \/ ArredReparo
    \/ ArredComplemento
    \/ ArredTorneio
    \/ BLDireta
    \/ BLAdicao
    \/ BLTroca
    \/ BLOtimoLocal
    \/ BLLimite

SpecTodas == InitTodas /\ [][NextTodas]_vars

\* ------------------------------------------------------------------------
\* Properties
\* ------------------------------------------------------------------------

\* positions of executar_instancia at which each result exists
TemGulosa == pc \in {"gulosa", "relaxacao", "arredondamento", "busca_local"}
TemRelaxacao == pc \in {"relaxacao", "arredondamento", "busca_local"}
TemArred == pc \in {"arredondamento", "busca_local"}
TemBL == pc = "busca_local"

Peso(sel) == Dot(sel, pesos)
Valor(sel) == Dot(sel, valores)

\* the selection busca_local starts from
Semente(b) ==
    IF b.inicial = Nenhum THEN gulosa_ratio(ordem).selecao ELSE b.inicial[1]

C2_LimiteSuperior ==
    /\ TemRelaxacao => DblGeInt(rl.valor, sol_g.valor)
    /\ TemArred => DblGeInt(rl.valor, sol_a.valor)
    /\ TemBL => DblGeInt(rl.valor, sol_bl.valor)

\* C3: the value returned by relaxacao_linear is at least the value of every
\* 0/1 selection that weighs at most the capacity.
C3_LimiteDoProblemaInteiro ==
    TemRelaxacao => \A s \in SelecoesViaveis : DblGeInt(rl.valor, Valor(s))

\* C4: every step of the loop of busca_local keeps or raises the tracked
\* value, every committed move raises it strictly, and the value returned is
\* at least the value of the seed.
C4_ValorNaoDecresce ==
    [][bl.passo = "laco" =>
         /\ bl'.valor >= bl.valor
         /\ bl'.selecao # bl.selecao => bl'.valor > bl.valor
         /\ bl'.passo # "laco" => sol_bl'.valor >= Valor(Semente(bl))]_vars

\* busca_local returned a selection worth more than its seed
C4_Witness ==
    /\ bl.passo = "otimo_local"
    /\ sol_bl.valor > Valor(Semente(bl))
    /\ bl.iteracoes >= 3

\* C5: whatever the fractional vector, the value returned by
\* arredondamento_reparo (given no greedy selection, or the one gulosa_ratio
\* returns) is at least the value of the greedy solution and at least the
\* value of melhor_item_que_cabe.
C5_Torneio ==
    (arr.passo = "fim" /\ arr.g \in {Nenhum, Algum(gulosa_ratio(ordem).selecao)})
        => /\ sol_a.valor >= gulosa_ratio(ordem).valor
           /\ sol_a.valor >= melhor_item_que_cabe.valor

\* the repaired and filled candidate lost the tournament
C5_Witness ==
    /\ arr.passo = "fim"
    /\ arr.g \in {Nenhum, Algum(gulosa_ratio(ordem).selecao)}
    /\ arr.c.valor < sol_a.valor
    /\ melhor_item_que_cabe.valor # gulosa_ratio(ordem).valor

\* C6: when busca_local leaves its loop through the break, no unselected
\* item of positive value fits next to the returned selection, and no
\* exchange of a selected item for an unselected one of higher value fits.
C6_OtimoLocal ==
    bl.passo = "otimo_local" =>
        LET sel == sol_bl.selecao IN
        /\ \A j \in NaoSelecionados(sel) :
              ~(valores[j] > 0 /\ Peso(sel) + pesos[j] <= capacidade)
        /\ \A i \in Selecionados(sel), j \in NaoSelecionados(sel) :
              ~(Peso(sel) - pesos[i] + pesos[j] <= capacidade
                  /\ valores[j] > valores[i])

\* the break was reached under the cap, after moves, with items left out
C6_Witness ==
    /\ bl.passo = "otimo_local"
    /\ bl.iteracoes < bl.max_iter
    /\ bl.iteracoes >= 2
    /\ NaoSelecionados(sol_bl.selecao) # {}
    /\ Selecionados(sol_bl.selecao) # {}

Exemplo ==
    /\ valores = <<60, 100, 120>>
    /\ pesos = <<10, 20, 30>>
    /\ capacidade = 50

\* C7: on the worked example gulosa_ratio returns items 1 and 2 (value 160,
\* weight 30); relaxacao_linear takes items 1 and 2 whole and item 3 at
\* 20/30, with value 240; arredondamento_reparo thresholds the three items
\* to 1, removes item 3 in the repair and returns value 160.
C7_Exemplo ==
    Exemplo =>
        /\ TemGulosa =>
              /\ sol_g.selecao = <<1, 1, 0>>
              /\ sol_g.valor = 160
              /\ sol_g.peso = 30
        /\ TemRelaxacao =>
              /\ rl.x = <<DblFromInt(1), DblFromInt(1), DblDiv(20, 30)>>
              /\ DblEqInt(rl.valor, 240)
        /\ arr.passo = "limiar" => arr.c.sel = <<1, 1, 1>>
        /\ arr.passo = "reparo" => arr.c.sel = <<1, 1, 0>>
        /\ TemArred => sol_a.valor = 160 /\ sol_a.selecao = <<1, 1, 0>>

C7_Witness == Exemplo /\ TemArred

\* C8: with capacity 0, gulosa_ratio, relaxacao_linear, arredondamento_reparo
\* and busca_local with its default seed return the all-zero selection, with
\* value 0 and weight 0.
C8_CapacidadeZero ==
    capacidade = 0 =>
        LET zeros == [i \in 1..N |-> 0] IN
        /\ pc = "gulosa_direta" =>
              sol_g.selecao = zeros /\ sol_g.valor = 0 /\ sol_g.peso = 0
        /\ pc = "relaxacao_direta" =>
              rl.x = [i \in 1..N |-> DblZero] /\ rl.valor = DblZero
        /\ arr.passo = "fim" =>
              sol_a.selecao = zeros /\ sol_a.valor = 0 /\ sol_a.peso = 0
        /\ (bl.passo \in {"otimo_local", "limite"} /\ bl.inicial = Nenhum) =>
              sol_bl.selecao = zeros /\ sol_bl.valor = 0 /\ sol_bl.peso = 0

\* arredondamento_reparo returned on an instance of two items and capacity
\* 0, given a vector that thresholds every item to 1
C8_Witness ==
    /\ capacidade = 0
    /\ N = 2
    /\ arr.passo = "fim"
    /\ Limiar(arr.x) = <<1, 1>>
    /\ \E i \in 1..N : valores[i] > 0

UmItemGrande == N = 1 /\ pesos[1] > capacidade

\* C9: for a single item heavier than the capacity, gulosa_ratio and
\* arredondamento_reparo (fed the vector of relaxacao_linear) return the
\* empty selection with value 0, and busca_local, started from the empty
\* selection, makes no move and returns it.
C9_UmItemGrande ==
    UmItemGrande =>
        /\ TemGulosa => sol_g.selecao = <<0>> /\ sol_g.valor = 0
        /\ TemArred => sol_a.selecao = <<0>> /\ sol_a.valor = 0
        /\ bl.passo # "inativo" => bl.inicial = Algum(<<0>>) /\ bl.selecao = <<0>>
        /\ TemBL => sol_bl.selecao = <<0>> /\ sol_bl.valor = 0 /\ bl.iteracoes = 1

\* the item was taken at a fraction of at least one half and thresholded to 1
C9_Witness ==
    /\ UmItemGrande
    /\ TemBL
    /\ Limiar(arr.x) = <<1>>
    /\ valores[1] > 0

\* C10: of two items of equal ratio, ordem (the order gulosa_ratio and
\* relaxacao_linear walk) lists first the one that comes first in the input.
C10_OrdemEstavel ==
    \A k \in 1..N, l \in 1..N :
        (k < l /\ ~RazaoMenor(ordem[k], ordem[l]) /\ ~RazaoMenor(ordem[l], ordem[k]))
            => ordem[k] < ordem[l]

\* C11: executar_comparacao attempts the paths of its list in order, a
\* failing one is logged and the loop goes on (no exception leaves the
\* function), and when it returns every path has been attempted and the
\* table holds one row for each path that did not fail and none for a
\* failing one.
C11_FalhasIsoladas ==
    /\ execucao.passo \in {"laco", "fim"}
    /\ Len(execucao.saida) = execucao.k - 1
    /\ \A k \in 1..Len(execucao.saida) :
          /\ execucao.saida[k].path = execucao.instancias[k]
          /\ execucao.saida[k].erro = Falha(execucao.instancias[k])
    /\ execucao.passo = "fim" =>
          /\ Len(execucao.saida) = Len(execucao.instancias)
          /\ \A f \in Arquivos :
                Cardinality({ i \in 1..Len(execucao.df) :
                                execucao.df[i].Instancia = f })
                  = IF Falha(f) THEN 0
                    ELSE Cardinality({ k \in 1..Len(execucao.instancias) :
                                         execucao.instancias[k] = f })

\* a list whose first and last paths fail returned a table of one row
C11_Witness ==
    /\ execucao.passo = "fim"
    /\ Len(execucao.instancias) = 3
    /\ Falha(execucao.instancias[1])
    /\ ~Falha(execucao.instancias[2])
    /\ Falha(execucao.instancias[3])
    /\ Len(execucao.df) = 1

\* the arrays that must stay apart: no two of these names share an object
Separados(nomes) ==
    \A a \in nomes, b \in nomes :
        (a # b /\ objetos[a] # 0) => objetos[a] # objetos[b]

\* C12: called by executar_instancia or on its own, no solver writes to its
\* inputs or to a record returned earlier: valores, pesos, the fractional
\* vector, the greedy selection passed to arredondamento_reparo and the seed
\* passed to busca_local keep their contents, the records of gulosa_ratio,
\* relaxacao_linear and arredondamento_reparo are the same after every later
\* step of executar_instancia, and the selection of a returned record is an
\* array of its own, apart from the array passed as greedy selection or as
\* seed.
C12_SemEfeitoNasEntradas ==
    /\ [](/\ Separados({"valores", "pesos", "x_frac", "sol_g", "sol_a", "sol_bl"})
          /\ Separados({"sol_a", "selecao_gulosa"})
          /\ Separados({"selecao", "selecao_inicial"})
          /\ Separados({"sol_bl", "selecao_inicial"}))
    /\ [][/\ valores' = valores
          /\ pesos' = pesos
          /\ TemGulosa => sol_g' = sol_g
          /\ TemRelaxacao => rl' = rl
          /\ TemArred => sol_a' = sol_a
          /\ arr.passo # "inativo" => (arr'.x = arr.x /\ arr'.g = arr.g)
          /\ bl.passo # "inativo" => bl'.inicial = bl.inicial]_vars

\* in executar_instancia busca_local returned after changing the selection
\* it was seeded with
C12_Witness ==
    /\ TemBL
    /\ sol_bl.selecao # bl.inicial[1]
    /\ bl.inicial[1] \in {sol_g.selecao, sol_a.selecao}

\* the weight of the items of sel that ordem lists before position k
PesoAntes(sel, k) ==
    Peso([i \in 1..N |-> IF \E l \in 1..(k - 1) : ordem[l] = i THEN sel[i] ELSE 0])

RestanteAntes(k) ==
    capacidade - Peso([i \in 1..N |-> IF \E l \in 1..(k - 1) : ordem[l] = i THEN 1 ELSE 0])

\* the positions of ordem whose item does not fit whole after the items
\* before it
NaoCabem == { k \in 1..N : pesos[ordem[k]] > RestanteAntes(k) }

\* C14: in the vector of relaxacao_linear the items before the first one
\* that does not fit whole are at 1, that item is at remaining capacity over
\* weight, every later item is at 0, and the weight used is the capacity
\* when some item does not fit whole and the sum of the weights otherwise.
C14_EstruturaDePrefixo ==
    TemRelaxacao =>
        IF NaoCabem = {}
        THEN /\ \A i \in 1..N : rl.x[i] = DblFromInt(1)
             /\ DblEqInt(rl.peso, Peso([i \in 1..N |-> 1]))
        ELSE LET p == Minimo(NaoCabem)
             IN  /\ \A k \in 1..(p - 1) : rl.x[ordem[k]] = DblFromInt(1)
                 /\ rl.x[ordem[p]] = DblDiv(RestanteAntes(p), pesos[ordem[p]])
                 /\ \A k \in (p + 1)..N : rl.x[ordem[k]] = DblZero
                 /\ DblEqInt(rl.peso, capacidade)

\* the items the repair step took out of the thresholded selection
Removidos == { i \in 1..N : Limiar(arr.x)[i] = 1 /\ arr.c.sel[i] = 0 }

\* C15: arredondamento_reparo starts from the items whose fraction is at
\* least 0.5 (0.5 included).  When they weigh more than the capacity the
\* repair removes items in ascending value/weight order and stops as soon as
\* the weight is within the capacity: nothing is added, no removed item has
\* a higher ratio than an item kept, and the last item removed would not fit
\* back.  When they fit, the repair removes nothing.
C15_LimiarEReparo ==
    /\ arr.passo = "limiar" =>
          \A i \in 1..N :
              /\ arr.c.sel[i] = 1 <=> DblGeHalf(arr.x[i])
              /\ arr.x[i] = DblDiv(1, 2) => arr.c.sel[i] = 1
    /\ arr.passo = "reparo" =>
          /\ \A i \in 1..N : arr.c.sel[i] = 1 => Limiar(arr.x)[i] = 1
          /\ Peso(Limiar(arr.x)) <= capacidade => Removidos = {}
          /\ Peso(Limiar(arr.x)) > capacidade =>
                /\ Peso(arr.c.sel) <= capacidade
                /\ \A r \in Removidos, m \in Selecionados(arr.c.sel) :
                      ~RazaoMenor(m, r)
                /\ Removidos =
                      { arr.ordem_remocao[k] : k \in 1..Cardinality(Removidos) }
                /\ Peso(arr.c.sel)
                      + pesos[arr.ordem_remocao[Cardinality(Removidos)]] > capacidade

\* the repair removed an item and kept one of a higher ratio that had been
\* selected at a fraction of exactly 0.5
C15_Witness ==
    /\ arr.passo = "reparo"
    /\ \E r \in Removidos, m \in Selecionados(arr.c.sel) :
          RazaoMenor(r, m) /\ arr.x[m] = DblDiv(1, 2)

\* C16: the fill step of arredondamento_reparo removes nothing: every item
\* selected after the repair is selected after the fill; and after the fill
\* no unselected item fits in what is left of the capacity.
C16_ComplementoSoAdiciona ==
    [][arr.passo = "reparo" =>
         /\ arr'.passo = "complemento"
         /\ \A i \in 1..N : arr.c.sel[i] = 1 => arr'.c.sel[i] = 1
         /\ \A j \in 1..N :
               arr'.c.sel[j] = 0 => Peso(arr'.c.sel) + pesos[j] > capacidade]_vars

\* after a repair that removed an item, the fill added one
C16_Witness ==
    /\ arr.passo = "complemento"
    /\ Removidos # {}
    /\ \E j \in 1..N : arr.c.sel[j] = 1 /\ Limiar(arr.x)[j] = 0

\* C17: the tournament of arredondamento_reparo gives a tie to the earlier
\* candidate: the repaired and filled candidate is returned whenever no
\* other candidate is worth more, the best single item whenever it is worth
\* more than that candidate and at least as much as the greedy selection,
\* and the greedy selection only when it is worth more than both.
C17_EmpateParaOPrimeiro ==
    arr.passo = "fim" =>
        LET single == melhor_item_que_cabe
            gulosa == selecao_gulosa(arr.g)
        IN  /\ (arr.c.valor >= single.valor /\ arr.c.valor >= Valor(gulosa))
                  => (sol_a.selecao = arr.c.sel /\ sol_a.valor = arr.c.valor)
            /\ (single.valor > arr.c.valor /\ single.valor >= Valor(gulosa))
                  => sol_a.selecao = single.selecao
            /\ (Valor(gulosa) > arr.c.valor /\ Valor(gulosa) > single.valor)
                  => sol_a.selecao = gulosa

\* the repaired and filled candidate tied with a different greedy selection
\* and was returned
C17_Witness ==
    /\ arr.passo = "fim"
    /\ arr.c.valor = Valor(selecao_gulosa(arr.g))
    /\ arr.c.valor >= melhor_item_que_cabe.valor
    /\ arr.c.sel # selecao_gulosa(arr.g)
    /\ sol_a.selecao = arr.c.sel

\* the unselected items of positive value that fit next to sel
CabemComValor(sel) ==
    { j \in NaoSelecionados(sel) :
        Peso(sel) + pesos[j] <= capacidade /\ valores[j] > 0 }

\* the exchanges of a selected item i for an unselected item j of higher
\* value that keep sel within the capacity
TrocasQueMelhoram(sel) ==
    { par \in Selecionados(sel) \X NaoSelecionados(sel) :
        /\ Peso(sel) - pesos[par[1]] + pesos[par[2]] <= capacidade
        /\ valores[par[2]] > valores[par[1]] }

\* a step that is one iteration of the loop of busca_local
Iteracao == bl.passo = "laco" /\ bl'.iteracoes = bl.iteracoes + 1

\* C18: when some unselected item of positive value fits, the iteration of
\* busca_local adds the one of lowest index and changes nothing else; and
\* no iteration ever selects an item of value 0.
C18_AdicaoDoPrimeiro ==
    [][Iteracao =>
         /\ CabemComValor(bl.selecao) # {} =>
               \E j \in CabemComValor(bl.selecao) :
                  /\ \A k \in CabemComValor(bl.selecao) : j <= k
                  /\ bl'.selecao = [bl.selecao EXCEPT ![j] = 1]
         /\ \A j \in 1..N :
               (bl.selecao[j] = 0 /\ bl'.selecao[j] = 1) => valores[j] > 0]_vars

\* the first iteration added an item though a later one could be added too
\* and one of value 0 fitted
C18_Witness ==
    /\ bl.passo = "laco"
    /\ bl.iteracoes = 1
    /\ \E z \in 1..N, j \in 1..N, k \in 1..N :
          /\ j < k
          /\ Semente(bl)[z] = 0
          /\ valores[z] = 0
          /\ Peso(Semente(bl)) + pesos[z] <= capacidade
          /\ {j, k} \subseteq CabemComValor(Semente(bl))
          /\ bl.selecao = [Semente(bl) EXCEPT ![j] = 1]

\* C19: an iteration of busca_local commits at most one move; it commits a
\* swap only when no item can be added, and the swap is the first pair, by
\* selected item and then by unselected item in index order, whose exchange
\* fits and raises the value.
C19_TrocaDaPrimeiraMelhoria ==
    [][Iteracao =>
         LET saem == { i \in 1..N : bl.selecao[i] = 1 /\ bl'.selecao[i] = 0 }
             entram == { j \in 1..N : bl.selecao[j] = 0 /\ bl'.selecao[j] = 1 }
             trocas == TrocasQueMelhoram(bl.selecao)
         IN  /\ Cardinality(entram) <= 1
             /\ Cardinality(saem) <= Cardinality(entram)
             /\ saem # {} =>
                   /\ CabemComValor(bl.selecao) = {}
                   /\ \E par \in trocas :
                         /\ saem = {par[1]}
                         /\ entram = {par[2]}
                         /\ \A q \in trocas :
                               \/ par[1] < q[1]
                               \/ par[1] = q[1] /\ par[2] <= q[2]
             /\ (CabemComValor(bl.selecao) = {} /\ trocas # {}) => saem # {}]_vars

\* the first iteration committed the first of two possible swaps
C19_Witness ==
    /\ bl.passo = "laco"
    /\ bl.iteracoes = 1
    /\ CabemComValor(Semente(bl)) = {}
    /\ \E p \in TrocasQueMelhoram(Semente(bl)), q \in TrocasQueMelhoram(Semente(bl)) :
          /\ p[1] < q[1]
          /\ bl.selecao = [Semente(bl) EXCEPT ![p[1]] = 0, ![p[2]] = 1]

\* C20: every move busca_local commits raises the value of the selection,
\* and a search started with the default cap of 10000 iterations ends at an
\* iteration that finds no move, never at the cap.
C20_Termina ==
    /\ [][(bl.passo = "laco" /\ bl'.selecao # bl.selecao)
            => Valor(bl'.selecao) > Valor(bl.selecao)]_vars
    /\ [](bl.passo = "limite" => bl.max_iter # MaxIterPadrao)
    /\ (bl.passo = "laco" /\ bl.max_iter = MaxIterPadrao) ~> (bl.passo = "otimo_local")

\* a search under the default cap stopped after three moves
C20_Witness ==
    /\ bl.passo = "otimo_local"
    /\ bl.max_iter = MaxIterPadrao
    /\ bl.iteracoes = 4

Max3(a, b, c) == IF a >= b /\ a >= c THEN a ELSE IF b >= c THEN b ELSE c

\* C23: in the row executar_instancia returns, Melhor_valor is the highest
\* of Greedy_valor, Arred_valor and BL_valor, and Melhor_metodo names the
\* first of Gulosa, Arredondamento, Busca Local whose value is that one.
C23_MelhorMetodo ==
    TemBL =>
        LET linha == Linha(1)
            melhor == Max3(linha.Greedy_valor, linha.Arred_valor, linha.BL_valor)
        IN  /\ linha.Greedy_valor = sol_g.valor
            /\ linha.Arred_valor = sol_a.valor
            /\ linha.BL_valor = sol_bl.valor
            /\ linha.Melhor_valor = melhor
            /\ linha.Melhor_metodo =
                  IF linha.Greedy_valor = melhor THEN "Gulosa"
                  ELSE IF linha.Arred_valor = melhor THEN "Arredondamento"
                  ELSE "Busca Local"

\* arredondamento_reparo beat gulosa_ratio and busca_local did not improve
\* on it: the row names Arredondamento
C23_Witness ==
    /\ TemBL
    /\ sol_a.valor > sol_g.valor
    /\ sol_bl.valor = sol_a.valor
    /\ Linha(1).Melhor_metodo = "Arredondamento"

\* C24: each gap executar_instancia reports is at most 100 (a gap is never
\* negative: max(0.0, .) over a positive divisor), is 0 when the value of
\* the method is at least the value of the relaxation, and is 0 when the
\* value of the relaxation is 0.
C24_Gaps ==
    TemBL =>
        \A par \in {<<gap_g, sol_g.valor>>, <<gap_a, sol_a.valor>>,
                    <<gap_bl, sol_bl.valor>>} :
            /\ DblGe(DblFromInt(100), par[1])
            /\ DblGe(DblFromInt(par[2]), rl.valor) => par[1] = DblZero
            /\ rl.valor = DblZero => par[1] = DblZero

\* C25: on the instance without items, whatever the capacity, gulosa_ratio,
\* relaxacao_linear, arredondamento_reparo and busca_local return the empty
\* selection with value 0 and weight 0, and a call that has not returned can
\* always take its next step.
C25_InstanciaVazia ==
    N = 0 =>
        /\ pc = "gulosa_direta" =>
              sol_g.selecao = <<>> /\ sol_g.valor = 0 /\ sol_g.peso = 0
        /\ pc = "relaxacao_direta" =>
              rl.x = <<>> /\ rl.valor = DblZero /\ rl.peso = DblZero
        /\ arr.passo = "fim" =>
              sol_a.selecao = <<>> /\ sol_a.valor = 0 /\ sol_a.peso = 0
        /\ bl.passo \in {"otimo_local", "limite"} =>
              sol_bl.selecao = <<>> /\ sol_bl.valor = 0 /\ sol_bl.peso = 0
        /\ NadaChamado =>
              /\ ENABLED GulosaDireta
              /\ ENABLED RelaxacaoDireta
              /\ ENABLED ArredDireta
              /\ ENABLED BLDireta
        /\ arr.passo \notin {"inativo", "fim"} =>
              ENABLED (ArredReparo \/ ArredComplemento \/ ArredTorneio)
        /\ bl.passo = "laco" =>
              ENABLED (BLAdicao \/ BLTroca \/ BLOtimoLocal \/ BLLimite)

\* arredondamento_reparo, given no greedy selection, returned on the
\* instance without items and with capacity left
C25_Witness ==
    /\ N = 0
    /\ capacidade > 0
    /\ arr.passo = "fim"
    /\ arr.g = Nenhum
    /\ sol_a.selecao = <<>>

\* C26: the Solucao busca_local returns holds, besides the selection, the
\* value, the weight and the name of the method, the number of iterations
\* the search executed.
C26_IteracoesNoResultado ==
    bl.passo \in {"otimo_local", "limite"} =>
        \E campo \in DOMAIN sol_bl \ {"selecao", "valor", "peso", "metodo"} :
            sol_bl[campo] = bl.iteracoes

C29_TotaisIguaisAAvaliar ==
    /\ bl.passo # "inativo" =>
          /\ bl.valor = avaliar_decimal(bl.selecao, valores, pesos).valor
          /\ bl.peso = avaliar_decimal(bl.selecao, valores, pesos).peso
    /\ bl.passo \in {"otimo_local", "limite"} =>
          /\ sol_bl.valor = avaliar_decimal(sol_bl.selecao, valores, pesos).valor
          /\ sol_bl.peso = avaliar_decimal(sol_bl.selecao, valores, pesos).peso

\* C30: the selection gulosa_ratio returns is maximal: no unselected item
\* has a weight within the capacity it left.  So a busca_local seeded with
\* the greedy selection never starts with an add: its first iteration is a
\* swap or finds no move.
C30_GulosaMaximal ==
    /\ pc = "gulosa_decimal" =>
          \A j \in NaoSelecionados(sol_g.selecao) :
              ~DblGe(DblSub(capacidade, sol_g.peso), pesos[j])
    /\ (bl.passo = "laco" /\ bl.inicial = Nenhum /\ bl.iteracoes = 0) =>
          PodeAdicionarDecimal(bl) = {}
====
